---- MODULE Spec2Model ----
(***************************************************************************)
(* gossh: a command-line SSH/SFTP client.  The model covers the            *)
(* configuration validator (internal/config), the connection factory and   *)
(* client object (internal/sshclient) and the two interactive loops of     *)
(* pkg/ui.  The SSH/SFTP library, the local file system, the network and   *)
(* standard input are the environment: their outcomes are drawn from small *)
(* sets.  The source's message texts are Chinese; the model names each     *)
(* message by an ASCII string and the comment gives the source line.       *)
(***************************************************************************)
EXTENDS Integers, Sequences, FiniteSets, TLC

VARIABLES
    heap,       \* config objects by address: heap[a] is an SSHConfig
    cfgPtr,     \* the *SSHConfig the caller built and passes around
    pc,         \* position of the calling program
    client,     \* the *Client returned by NewClient, or NoClient
    connState,  \* state of the ssh.Client behind client.conn
    calls,      \* library / OS calls made so far by NewClient, in order
    openSessions, \* ssh sessions opened on the connection and not yet closed
    ret,        \* return values of the most recent call
    remote,     \* the remote file system the SFTP server serves
    nread,      \* lines the running interactive loop has read from stdin
    input,      \* what the loop's latest reader.ReadString returned
    last,       \* the latest command an interactive loop executed
    main        \* the running program of cmd/: its flags, modes run, exit

clientVars == <<heap, cfgPtr, client, connState, calls, openSessions>>

sessionVars == <<remote, nread, input, last>>

vars == <<heap, cfgPtr, pc, client, connState, calls, openSessions, ret,
          remote, nread, input, last, main>>

----------------------------------------------------------------------------
\* Bounds of the model

\* number of lines an interactive loop reads before input must end
MaxInput == 3

----------------------------------------------------------------------------
\* Go's nil, for errors (an error is the chain of wrapped messages) and
\* pointers.

NilErr == <<>>
NoClient == [config |-> 0, conn |-> 0]
NilConn == 0

\* errors.New(msg)
ErrorsNew(msg) == <<msg>>

\* fmt.Errorf(msg + ": %w", err)
Wrap(msg, err) == <<msg>> \o err

\* contains(err.Error(), msg) of the tests: the text of a wrapped error is
\* the concatenation of the chain's messages.
Contains(err, msg) == \E i \in 1..Len(err) : err[i] = msg

----------------------------------------------------------------------------
\* Message texts

MsgHostEmpty      == "host address must not be empty"      \* config.go:29
MsgUserEmpty      == "username must not be empty"          \* config.go:34
MsgPortRange      == "port must be within 1-65535"         \* config.go:39
MsgNoCredentials  == "password or key file required"       \* config.go:44
MsgKeyFileMissing == "key file does not exist"             \* config.go:50
MsgValidateFailed == "config validation failed"            \* client.go:33
MsgAuthFailed     == "configuring auth methods failed"     \* client.go:45
MsgDialFailed     == "SSH connection failed"               \* client.go:51
MsgReadKeyFailed  == "reading key file failed"             \* client.go:83
MsgParseKeyFailed == "parsing private key failed"          \* client.go:89

----------------------------------------------------------------------------
\* The local file system, as os.Stat and ioutil.ReadFile see it.

PathValidKey   == "/keys/id_rsa"              \* a readable private key
PathGarbage    == "/keys/garbage"             \* readable, not a key
PathUnreadable == "/keys/secret"              \* exists, mode 000
PathMissing    == "/path/to/nonexistent/key"  \* no such file (ENOENT)
PathUnderFile  == "/etc/passwd/key"           \* parent is a regular file

LocalPaths == {PathValidKey, PathGarbage, PathUnreadable, PathMissing,
               PathUnderFile}

\* whether the path names an existing file
FileExists(path) == path \in {PathValidKey, PathGarbage, PathUnreadable}

\* errno of stat(2) on the path, "OK" on success
StatErrno(path) ==
    CASE path = PathMissing   -> "ENOENT"
      [] path = PathUnderFile -> "ENOTDIR"
      [] OTHER                -> "OK"

\* os.IsNotExist(err): true of ENOENT only (syscall.Errno.Is)
IsNotExist(errno) == errno = "ENOENT"

\* ioutil.ReadFile(path): the errno, or "OK" and the file's content
ReadFile(path) ==
    CASE path = PathValidKey   -> [errno |-> "OK", data |-> "PEM"]
      [] path = PathGarbage    -> [errno |-> "OK", data |-> "garbage"]
      [] path = PathUnreadable -> [errno |-> "EACCES", data |-> ""]
      [] path = PathMissing    -> [errno |-> "ENOENT", data |-> ""]
      [] OTHER                 -> [errno |-> "ENOTDIR", data |-> ""]

\* ssh.ParsePrivateKey(keyData) succeeds on a well-formed key only
ParsePrivateKeyOk(data) == data = "PEM"

----------------------------------------------------------------------------
\* internal/config: SSHConfig

Hosts     == {"", "192.168.1.100"}
Usernames == {"", "root"}
Ports     == {-1, 0, 1, 22, 65535, 65536}
Passwords == {"", "123456"}
KeyFiles  == {""} \cup LocalPaths

SSHConfig == [Host : Hosts, Port : Ports, Username : Usernames,
              Password : Passwords, KeyFile : KeyFiles]

\* (c *SSHConfig) Validate
Validate(c) ==
    IF c.Host = "" THEN ErrorsNew(MsgHostEmpty)
    ELSE IF c.Username = "" THEN ErrorsNew(MsgUserEmpty)
    ELSE IF c.Port <= 0 \/ c.Port > 65535 THEN ErrorsNew(MsgPortRange)
    ELSE IF c.Password = "" /\ c.KeyFile = "" THEN ErrorsNew(MsgNoCredentials)
    ELSE IF c.KeyFile # "" /\ IsNotExist(StatErrno(c.KeyFile))
         THEN ErrorsNew(MsgKeyFileMissing)
    ELSE NilErr

\* the OS calls Validate makes: os.Stat is reached only past the first
\* four checks and only with a key file configured
ValidateCalls(c) ==
    IF /\ c.Host # "" /\ c.Username # ""
       /\ ~(c.Port <= 0 \/ c.Port > 65535)
       /\ ~(c.Password = "" /\ c.KeyFile = "")
       /\ c.KeyFile # ""
    THEN <<[call |-> "Stat", arg |-> c.KeyFile,
            res |-> StatErrno(c.KeyFile)]>>
    ELSE <<>>

\* (c *SSHConfig) GetAddress: fmt.Sprintf("%s:%d", Host, Port)
GetAddress(c) == <<c.Host, ":", c.Port>>

HasKeyAuth(c) == c.KeyFile # ""

HasPasswordAuth(c) == c.Password # ""

----------------------------------------------------------------------------
\* internal/sshclient: NewClient and addAuthMethods

\* ssh.Password(p) and ssh.PublicKeys(signer)
PasswordMethod(p) == [method |-> "password", secret |-> p]
PublicKeysMethod(file) == [method |-> "publickey", secret |-> file]

\* mutants of addAuthMethods: the key method is put before the password
\* method; the password method is installed before the key is read
addAuthMethods_KeyFirst(sshConfig, c) ==
    LET withPw == IF HasPasswordAuth(c)
                  THEN <<PasswordMethod(c.Password)>> ELSE <<>>
        rd == ReadFile(c.KeyFile)
        readCall == [call |-> "ReadFile", arg |-> c.KeyFile, res |-> rd.errno]
        parseCall == [call |-> "ParsePrivateKey", arg |-> c.KeyFile,
                      res |-> IF ParsePrivateKeyOk(rd.data)
                              THEN "OK" ELSE "no key found"]
    IN  IF ~HasKeyAuth(c)
        THEN [err |-> NilErr,
              sshConfig |-> [sshConfig EXCEPT !.Auth = withPw],
              calls |-> <<>>]
        ELSE IF rd.errno # "OK"
        THEN [err |-> Wrap(MsgReadKeyFailed, <<rd.errno>>),
              sshConfig |-> sshConfig,
              calls |-> <<readCall>>]
        ELSE IF ~ParsePrivateKeyOk(rd.data)
        THEN [err |-> Wrap(MsgParseKeyFailed, <<"ssh: no key found">>),
              sshConfig |-> sshConfig,
              calls |-> <<readCall, parseCall>>]
        ELSE [err |-> NilErr,
              sshConfig |-> [sshConfig EXCEPT
                               !.Auth = <<PublicKeysMethod(c.KeyFile)>> \o withPw],
              calls |-> <<readCall, parseCall>>]

addAuthMethods_EagerAssign(sshConfig, c) ==
    LET withPw == IF HasPasswordAuth(c)
                  THEN <<PasswordMethod(c.Password)>> ELSE <<>>
        eager == [sshConfig EXCEPT !.Auth = withPw]
        rd == ReadFile(c.KeyFile)
        readCall == [call |-> "ReadFile", arg |-> c.KeyFile, res |-> rd.errno]
        parseCall == [call |-> "ParsePrivateKey", arg |-> c.KeyFile,
                      res |-> IF ParsePrivateKeyOk(rd.data)
                              THEN "OK" ELSE "no key found"]
    IN  IF ~HasKeyAuth(c)
        THEN [err |-> NilErr, sshConfig |-> eager, calls |-> <<>>]
        ELSE IF rd.errno # "OK"
        THEN [err |-> Wrap(MsgReadKeyFailed, <<rd.errno>>),
              sshConfig |-> eager,
              calls |-> <<readCall>>]
        ELSE IF ~ParsePrivateKeyOk(rd.data)
        THEN [err |-> Wrap(MsgParseKeyFailed, <<"ssh: no key found">>),
              sshConfig |-> eager,
              calls |-> <<readCall, parseCall>>]
        ELSE [err |-> NilErr,
              sshConfig |-> [sshConfig EXCEPT
                               !.Auth = withPw \o <<PublicKeysMethod(c.KeyFile)>>],
              calls |-> <<readCall, parseCall>>]

\* addAuthMethods(sshConfig, cfg): the error, the ClientConfig as the call
\* leaves it, and the OS/library calls made
addAuthMethods(sshConfig, c) ==
    LET withPw == IF HasPasswordAuth(c)
                  THEN <<PasswordMethod(c.Password)>> ELSE <<>>
        rd == ReadFile(c.KeyFile)
        readCall == [call |-> "ReadFile", arg |-> c.KeyFile, res |-> rd.errno]
        parseCall == [call |-> "ParsePrivateKey", arg |-> c.KeyFile,
                      res |-> IF ParsePrivateKeyOk(rd.data)
                              THEN "OK" ELSE "no key found"]
    IN  IF ~HasKeyAuth(c)
        THEN [err |-> NilErr,
              sshConfig |-> [sshConfig EXCEPT !.Auth = withPw],
              calls |-> <<>>]
        ELSE IF rd.errno # "OK"
        THEN [err |-> Wrap(MsgReadKeyFailed, <<rd.errno>>),
              sshConfig |-> sshConfig,
              calls |-> <<readCall>>]
        ELSE IF ~ParsePrivateKeyOk(rd.data)
        THEN [err |-> Wrap(MsgParseKeyFailed, <<"ssh: no key found">>),
              sshConfig |-> sshConfig,
              calls |-> <<readCall, parseCall>>]
        ELSE [err |-> NilErr,
              sshConfig |-> [sshConfig EXCEPT
                               !.Auth = withPw \o <<PublicKeysMethod(c.KeyFile)>>],
              calls |-> <<readCall, parseCall>>]

\* outcomes of ssh.Dial("tcp", addr, sshConfig)
DialOutcomes == {"ok", "unreachable", "refused", "auth rejected"}

\* a failing return of NewClient: return nil, fmt.Errorf(msg + ": %w", err)
\* and, as a mutant, one that hands out a client together with the error
NewClientFailure_KeepsClient(cfg, msg, err, cs) ==
    [client |-> [config |-> cfg, conn |-> NilConn], err |-> Wrap(msg, err),
     conn |-> "none", heap |-> heap, calls |-> cs]

NewClientFailure(cfg, msg, err, cs) ==
    [client |-> NoClient, err |-> Wrap(msg, err),
     conn |-> "none", heap |-> heap, calls |-> cs]

\* the successful return: &Client{config: cfg, conn: conn}, nil
\* and, as a mutant, one that stores a copy of the configuration
NewClientSuccess_CopiesConfig(cfg, cs) ==
    [client |-> [config |-> Len(heap) + 1, conn |-> 1], err |-> NilErr,
     conn |-> "open", heap |-> Append(heap, heap[cfg]), calls |-> cs]

NewClientSuccess(cfg, cs) ==
    [client |-> [config |-> cfg, conn |-> 1], err |-> NilErr,
     conn |-> "open", heap |-> heap, calls |-> cs]

\* mutant of NewClient: the configuration is not validated first
NewClientResult_NoValidate(cfg, dial) ==
    LET c == heap[cfg]
        sshConfig0 == [User |-> c.Username, Auth |-> <<>>, Timeout |-> 30]
        auth == addAuthMethods(sshConfig0, c)
        dialCall == [call |-> "Dial", arg |-> GetAddress(c), res |-> dial,
                     auth |-> auth.sshConfig.Auth]
    IN  IF auth.err # NilErr
        THEN NewClientFailure(cfg, MsgAuthFailed, auth.err, auth.calls)
        ELSE IF dial # "ok"
        THEN NewClientFailure(cfg, MsgDialFailed, <<dial>>,
                              auth.calls \o <<dialCall>>)
        ELSE NewClientSuccess(cfg, auth.calls \o <<dialCall>>)

\* NewClient(cfg) with the network answering dial: the returned client and
\* error, the state of the connection, the config objects as the call leaves
\* them, and the calls made
NewClientResult(cfg, dial) ==
    LET c == heap[cfg]
        verr == Validate(c)
        sshConfig0 == [User |-> c.Username, Auth |-> <<>>, Timeout |-> 30]
        auth == addAuthMethods(sshConfig0, c)
        dialCall == [call |-> "Dial", arg |-> GetAddress(c), res |-> dial,
                     auth |-> auth.sshConfig.Auth]
    IN  IF verr # NilErr
        THEN NewClientFailure(cfg, MsgValidateFailed, verr, ValidateCalls(c))
        ELSE IF auth.err # NilErr
        THEN NewClientFailure(cfg, MsgAuthFailed, auth.err,
                              ValidateCalls(c) \o auth.calls)
        ELSE IF dial # "ok"
        THEN NewClientFailure(cfg, MsgDialFailed, <<dial>>,
                              ValidateCalls(c) \o auth.calls \o <<dialCall>>)
        ELSE NewClientSuccess(cfg, ValidateCalls(c) \o auth.calls \o <<dialCall>>)

----------------------------------------------------------------------------
\* internal/sshclient: the Client object

MsgNewSessionFailed == "creating session failed"           \* client.go:127
MsgRunFailed        == "executing command failed"          \* client.go:134

\* (c *Client) GetConnection
GetConnection(cl) == cl.conn

\* (c *Client) GetConfig
GetConfig(cl) == cl.config

\* remote commands the callers run, and what the remote prints for them
Commands == {<<"pwd">>, <<"whoami">>, <<"false">>}

CombinedOutput(command) == <<"stdout+stderr", command>>

\* mutant of ExecuteCommand: the session is closed on the successful path
\* only
ExecuteCommandResult_LeakOnError(command, nsOk, runOk) ==
    IF ~nsOk
    THEN [out |-> <<>>, err |-> Wrap(MsgNewSessionFailed, <<"EOF">>),
          opened |-> 0, closed |-> 0]
    ELSE IF ~runOk
    THEN [out |-> <<>>, err |-> Wrap(MsgRunFailed, <<"exit status 1">>),
          opened |-> 1, closed |-> 0]
    ELSE [out |-> CombinedOutput(command), err |-> NilErr,
          opened |-> 1, closed |-> 1]

\* (c *Client) ExecuteCommand(command): nsOk says whether conn.NewSession
\* succeeds, runOk whether session.CombinedOutput does.  opened and closed
\* count the sessions the call opens and closes.
ExecuteCommandResult(command, nsOk, runOk) ==
    IF ~nsOk
    THEN [out |-> <<>>, err |-> Wrap(MsgNewSessionFailed, <<"EOF">>),
          opened |-> 0, closed |-> 0]
    ELSE IF ~runOk
    THEN [out |-> <<>>, err |-> Wrap(MsgRunFailed, <<"exit status 1">>),
          opened |-> 1, closed |-> 1]
    ELSE [out |-> CombinedOutput(command), err |-> NilErr,
          opened |-> 1, closed |-> 1]

\* (c *Client) Close: conn.Close() on a non-nil connection; closing an
\* already closed connection is an error of the library
CloseResult(cl, state) ==
    IF cl.conn # NilConn
    THEN [err |-> IF state = "open" THEN NilErr
                  ELSE <<"use of closed network connection">>,
          conn |-> "closed"]
    ELSE [err |-> NilErr, conn |-> state]

----------------------------------------------------------------------------
\* pkg/ui: reading and splitting input lines

\* A line of input is the sequence of its tokens up to the newline: SP is a
\* run of white space, every other token a maximal run of other characters.
SP == " "

Min(S) == CHOOSE x \in S : \A y \in S : x <= y

Max(S) == CHOOSE x \in S : \A y \in S : x >= y

\* strings.TrimSpace: leading and trailing white space removed
TrimSpace(l) ==
    LET idx == {i \in 1..Len(l) : l[i] # SP}
    IN  IF idx = {} THEN <<>> ELSE SubSeq(l, Min(idx), Max(idx))

IsWord(t) == t # SP

\* strings.Fields: the words between runs of white space
Fields(l) == SelectSeq(l, IsWord)

\* the lines standard input may deliver
Lines ==
    {<<>>, <<SP>>,
     <<"help">>, <<"ls">>, <<"ls", SP, "/tmp">>, <<"ls", SP, "/nodir">>,
     <<"dir">>, <<"pwd">>,
     <<"cd">>, <<"cd", SP, "/tmp">>, <<"cd", SP, "/nodir">>,
     <<"get">>, <<"get", SP, "/tmp/a.txt">>,
     <<"put">>, <<"put", SP, "/home/u/b.txt", SP, "/tmp/b.txt">>,
     <<"mkdir">>, <<"mkdir", SP, "/data">>,
     <<"rm">>, <<"rm", SP, "/tmp/a.txt">>,
     <<"exit">>, <<"quit">>, <<SP, "exit", SP>>, <<"exit", SP, "now">>,
     <<"EXIT">>, <<"whoami">>}

\* reader.ReadString('\n'): a line, end of input (data before it without a
\* newline comes with io.EOF), or another read error
ReadResults(n) ==
    {[data |-> l, err |-> "nil"] : l \in IF n < MaxInput THEN Lines ELSE {}}
    \cup {[data |-> l, err |-> "EOF"] : l \in {<<>>, <<"exit">>}}
    \cup {[data |-> <<>>, err |-> "EIO"]}

NoInput == [data |-> <<>>, err |-> "none"]

----------------------------------------------------------------------------
\* pkg/ui: the remote side as the SFTP library presents it

RemoteHome == "/root"

RemoteRoot == "/"

\* parent directory of the paths the model uses
Parent(path) ==
    CASE path = "/tmp/a.txt" -> "/tmp"
      [] path = "/tmp/b.txt" -> "/tmp"
      [] OTHER               -> RemoteRoot

\* the server resolves "." to the login directory
Resolve(path) == IF path = "." THEN RemoteHome ELSE path

RemoteInit == [dirs |-> {RemoteRoot, RemoteHome, "/tmp"},
               files |-> {"/tmp/a.txt"}]

Entries(fs) == (fs.dirs \cup fs.files) \ {RemoteRoot}

Children(fs, dir) == {p \in Entries(fs) : Parent(p) = dir}

\* client.ReadDir(dir)
ReadDir(fs, dir, netOk) ==
    IF netOk /\ Resolve(dir) \in fs.dirs
    THEN [ok |-> TRUE, files |-> Children(fs, Resolve(dir))]
    ELSE [ok |-> FALSE, files |-> {}]

\* client.Getwd(): the server's real path of "."
Getwd(netOk) ==
    IF netOk THEN [ok |-> TRUE, dir |-> Resolve(".")]
    ELSE [ok |-> FALSE, dir |-> ""]

\* client.Stat(path)
StatOk(fs, path, netOk) == netOk /\ Resolve(path) \in fs.dirs \cup fs.files

\* client.Mkdir(path)
Mkdir(fs, path, netOk) ==
    IF /\ netOk
       /\ Resolve(path) \notin fs.dirs \cup fs.files
       /\ Parent(Resolve(path)) \in fs.dirs
    THEN [ok |-> TRUE, fs |-> [fs EXCEPT !.dirs = @ \cup {Resolve(path)}]]
    ELSE [ok |-> FALSE, fs |-> fs]

\* client.Remove(path): a file, or a directory that is empty
Remove(fs, path, netOk) ==
    IF netOk /\ Resolve(path) \in fs.files
    THEN [ok |-> TRUE, fs |-> [fs EXCEPT !.files = @ \ {Resolve(path)}]]
    ELSE IF /\ netOk
            /\ Resolve(path) \in fs.dirs \ {RemoteRoot}
            /\ Children(fs, Resolve(path)) = {}
    THEN [ok |-> TRUE, fs |-> [fs EXCEPT !.dirs = @ \ {Resolve(path)}]]
    ELSE [ok |-> FALSE, fs |-> fs]

\* filepath.Base of the paths the model uses
Base(path) ==
    CASE path = "/tmp/a.txt"    -> "a.txt"
      [] path = "/tmp/b.txt"    -> "b.txt"
      [] path = "/home/u/b.txt" -> "b.txt"
      [] path = "/tmp"          -> "tmp"
      [] path = "/data"         -> "data"
      [] path = "/nodir"        -> "nodir"
      [] OTHER                  -> path

----------------------------------------------------------------------------
\* pkg/ui: the SFTP commands

MsgSftpClientFailed == "creating SFTP client failed"       \* part_000:342
MsgReadInputFailed  == "reading user input failed"         \* part_000:372
MsgUnknownCommand   == "unknown command"                   \* part_000:437
MsgReadDirFailed    == "reading directory failed"          \* part_000:467
MsgGetwdFailed      == "getting current directory failed"  \* part_000:490
MsgCdNoArg          == "specify the directory to change to" \* part_000:499
MsgCdNoDir          == "directory missing or inaccessible" \* part_000:506
MsgPutNoArg         == "specify the local file to upload"  \* part_000:596
MsgPutNeedsClient   == "upload needs the full client object" \* part_000:609
MsgGetNoArg         == "specify the remote file to download" \* part_000:615
MsgGetNeedsClient   == "download needs the full client object" \* part_000:626
MsgMkdirNoArg       == "specify the directory to create"   \* part_000:632
MsgMkdirFailed      == "creating directory failed"         \* part_000:636
MsgRmNoArg          == "specify the file to delete"        \* part_000:646
MsgRmFailed         == "deleting file failed"              \* part_000:650

\* what a command printed: lines of text and, for ls, the names listed
NoOutput == [text |-> <<>>, listing |-> {}]

Printed(text) == [text |-> text, listing |-> {}]

\* the result of a command: its error, its output, the library calls it
\* made and the remote file system as it leaves it
Result(err, out, libCalls, fs) ==
    [err |-> err, out |-> out, calls |-> libCalls, remote |-> fs]

\* showSFTPHelp
showSFTPHelp(fs) ==
    Result(NilErr,
           Printed(<<"ls [dir]", "pwd", "cd <dir>", "get <remote> [local]",
                     "put <local> [remote]", "mkdir <dir>", "rm <file>",
                     "help", "exit/quit">>),
           <<>>, fs)

\* mutant of listRemoteDirectory: the listing read when the session began
\* is reused
listRemoteDirectory_Cached(fs, args, netOk) ==
    LET dir == IF Len(args) > 0 THEN args[1] ELSE "."
        r == ReadDir(RemoteInit, dir, netOk)
    IN  IF ~r.ok
        THEN Result(Wrap(MsgReadDirFailed, <<"sftp error">>), NoOutput,
                    <<"ReadDir">>, fs)
        ELSE Result(NilErr,
                    [text |-> <<"contents of", dir>>, listing |-> r.files],
                    <<"ReadDir">>, fs)

\* listRemoteDirectory(client, args)
listRemoteDirectory(fs, args, netOk) ==
    LET dir == IF Len(args) > 0 THEN args[1] ELSE "."
        r == ReadDir(fs, dir, netOk)
    IN  IF ~r.ok
        THEN Result(Wrap(MsgReadDirFailed, <<"sftp error">>), NoOutput,
                    <<"ReadDir">>, fs)
        ELSE Result(NilErr,
                    [text |-> <<"contents of", dir>>, listing |-> r.files],
                    <<"ReadDir">>, fs)

\* showRemotePwd(client)
showRemotePwd(fs, netOk) ==
    LET r == Getwd(netOk)
    IN  IF ~r.ok
        THEN Result(Wrap(MsgGetwdFailed, <<"sftp error">>), NoOutput,
                    <<"Getwd">>, fs)
        ELSE Result(NilErr, Printed(<<r.dir>>), <<"Getwd">>, fs)

\* changeRemoteDirectory(client, args)
changeRemoteDirectory(fs, args, netOk) ==
    IF Len(args) = 0
    THEN Result(ErrorsNew(MsgCdNoArg), NoOutput, <<>>, fs)
    ELSE IF ~StatOk(fs, args[1], netOk)
    THEN Result(Wrap(MsgCdNoDir, <<"sftp error">>), NoOutput, <<"Stat">>, fs)
    ELSE Result(NilErr,
                Printed(<<"SFTP cannot change directory, use full paths",
                          "exists and is accessible", args[1]>>),
                <<"Stat">>, fs)

\* uploadFileCommand(client, args)
uploadFileCommand(fs, args) ==
    IF Len(args) = 0
    THEN Result(ErrorsNew(MsgPutNoArg), NoOutput, <<>>, fs)
    ELSE LET localPath == args[1]
             remotePath == IF Len(args) > 1 THEN args[2] ELSE Base(localPath)
         IN  Result(ErrorsNew(MsgPutNeedsClient),
                    Printed(<<"uploading", localPath, remotePath>>), <<>>, fs)

\* downloadFileCommand(client, args)
downloadFileCommand(fs, args) ==
    IF Len(args) = 0
    THEN Result(ErrorsNew(MsgGetNoArg), NoOutput, <<>>, fs)
    ELSE LET remotePath == args[1]
             localPath == IF Len(args) > 1 THEN args[2] ELSE Base(remotePath)
         IN  Result(ErrorsNew(MsgGetNeedsClient),
                    Printed(<<"downloading", remotePath, localPath>>), <<>>, fs)

\* createRemoteDirectory(client, args)
createRemoteDirectory(fs, args, netOk) ==
    IF Len(args) = 0
    THEN Result(ErrorsNew(MsgMkdirNoArg), NoOutput, <<>>, fs)
    ELSE LET r == Mkdir(fs, args[1], netOk)
         IN  IF ~r.ok
             THEN Result(Wrap(MsgMkdirFailed, <<"sftp error">>), NoOutput,
                         <<"Mkdir">>, fs)
             ELSE Result(NilErr, Printed(<<"created", args[1]>>),
                         <<"Mkdir">>, r.fs)

\* removeRemoteFile(client, args)
removeRemoteFile(fs, args, netOk) ==
    IF Len(args) = 0
    THEN Result(ErrorsNew(MsgRmNoArg), NoOutput, <<>>, fs)
    ELSE LET r == Remove(fs, args[1], netOk)
         IN  IF ~r.ok
             THEN Result(Wrap(MsgRmFailed, <<"sftp error">>), NoOutput,
                         <<"Remove">>, fs)
             ELSE Result(NilErr, Printed(<<"deleted", args[1]>>),
                         <<"Remove">>, r.fs)

\* mutant of the command switch: quit is missing from the exit case
executeSFTPCommand_NoQuit(fs, command, args, netOk) ==
    CASE command = "help" -> showSFTPHelp(fs)
      [] command \in {"ls", "dir"} -> listRemoteDirectory(fs, args, netOk)
      [] command = "pwd" -> showRemotePwd(fs, netOk)
      [] command = "cd" -> changeRemoteDirectory(fs, args, netOk)
      [] command = "get" -> downloadFileCommand(fs, args)
      [] command = "put" -> uploadFileCommand(fs, args)
      [] command = "mkdir" -> createRemoteDirectory(fs, args, netOk)
      [] command = "rm" -> removeRemoteFile(fs, args, netOk)
      [] command = "exit" ->
            Result(NilErr, Printed(<<"bye">>), <<>>, fs)
      [] OTHER ->
            Result(ErrorsNew(MsgUnknownCommand), NoOutput, <<>>, fs)

\* executeSFTPCommand(client, command, args)
executeSFTPCommand(fs, command, args, netOk) ==
    CASE command = "help" -> showSFTPHelp(fs)
      [] command \in {"ls", "dir"} -> listRemoteDirectory(fs, args, netOk)
      [] command = "pwd" -> showRemotePwd(fs, netOk)
      [] command = "cd" -> changeRemoteDirectory(fs, args, netOk)
      [] command = "get" -> downloadFileCommand(fs, args)
      [] command = "put" -> uploadFileCommand(fs, args)
      [] command = "mkdir" -> createRemoteDirectory(fs, args, netOk)
      [] command = "rm" -> removeRemoteFile(fs, args, netOk)
      [] command \in {"exit", "quit"} ->
            Result(NilErr, Printed(<<"bye">>), <<>>, fs)
      [] OTHER ->
            Result(ErrorsNew(MsgUnknownCommand), NoOutput, <<>>, fs)

----------------------------------------------------------------------------
\* pkg/ui: UploadFile and DownloadFile

MsgOpenLocalFailed    == "opening local file failed"       \* part_000:534
MsgCreateRemoteFailed == "creating remote file failed"     \* part_000:541
MsgTransferFailed     == "file transfer failed"            \* part_000:548
MsgOpenRemoteFailed   == "opening remote file failed"      \* part_000:573
MsgCreateLocalFailed  == "creating local file failed"      \* part_000:580

\* local paths handed to the transfer functions
LocalFile        == "/home/u/b.txt"              \* an existing readable file
LocalMissingFile == "/path/to/nonexistent/file"  \* part_000:90

\* os.Open(path) succeeds on an existing readable file
OsOpenOk(path) == path \in {LocalFile, PathValidKey, PathGarbage}

\* os.Create(path) succeeds where the directory exists and is writable
OsCreateOk(path) == path \in {LocalFile, "/home/u/c.txt"}

\* sftpClient.Create(path)
RemoteCreateOk(fs, path, netOk) ==
    /\ netOk
    /\ path # ""
    /\ path \notin fs.dirs
    /\ Parent(Resolve(path)) \in fs.dirs

\* sftpClient.Open(path)
RemoteOpenOk(fs, path, netOk) == netOk /\ Resolve(path) \in fs.files

\* what the network does during a transfer: whether the SFTP subsystem
\* starts, whether the remote file can be reached, whether io.Copy completes
TransferEnvs == [sftpOk : BOOLEAN, netOk : BOOLEAN, copyOk : BOOLEAN]

\* the result of a transfer function: the error, whether the call
\* panicked instead of returning, the library and OS calls made in order,
\* and the remote file system afterwards
Transfer(err, panicked, libCalls, fs) ==
    [err |-> err, panic |-> panicked, calls |-> libCalls, remote |-> fs]

\* UploadFile(client, localPath, remotePath): connection state is state;
\* sftp.NewClient on a nil *ssh.Client dereferences it
UploadFile(cl, state, fs, localPath, remotePath, env) ==
    IF GetConnection(cl) = NilConn
    THEN Transfer(NilErr, TRUE, <<"sftp.NewClient">>, fs)
    ELSE IF ~(state = "open" /\ env.sftpOk)
    THEN Transfer(Wrap(MsgSftpClientFailed, <<"ssh error">>), FALSE,
                  <<"sftp.NewClient">>, fs)
    ELSE IF ~OsOpenOk(localPath)
    THEN Transfer(Wrap(MsgOpenLocalFailed, <<"ENOENT">>), FALSE,
                  <<"sftp.NewClient", "os.Open", "sftp.Close">>, fs)
    ELSE IF ~RemoteCreateOk(fs, remotePath, env.netOk)
    THEN Transfer(Wrap(MsgCreateRemoteFailed, <<"sftp error">>), FALSE,
                  <<"sftp.NewClient", "os.Open", "Create", "sftp.Close">>, fs)
    ELSE IF ~env.copyOk
    THEN Transfer(Wrap(MsgTransferFailed, <<"sftp error">>), FALSE,
                  <<"sftp.NewClient", "os.Open", "Create", "io.Copy",
                    "sftp.Close">>,
                  [fs EXCEPT !.files = @ \cup {Resolve(remotePath)}])
    ELSE Transfer(NilErr, FALSE,
                  <<"sftp.NewClient", "os.Open", "Create", "io.Copy",
                    "sftp.Close">>,
                  [fs EXCEPT !.files = @ \cup {Resolve(remotePath)}])

\* DownloadFile(client, remotePath, localPath)
DownloadFile(cl, state, fs, remotePath, localPath, env) ==
    IF GetConnection(cl) = NilConn
    THEN Transfer(NilErr, TRUE, <<"sftp.NewClient">>, fs)
    ELSE IF ~(state = "open" /\ env.sftpOk)
    THEN Transfer(Wrap(MsgSftpClientFailed, <<"ssh error">>), FALSE,
                  <<"sftp.NewClient">>, fs)
    ELSE IF ~RemoteOpenOk(fs, remotePath, env.netOk)
    THEN Transfer(Wrap(MsgOpenRemoteFailed, <<"sftp error">>), FALSE,
                  <<"sftp.NewClient", "Open", "sftp.Close">>, fs)
    ELSE IF ~OsCreateOk(localPath)
    THEN Transfer(Wrap(MsgCreateLocalFailed, <<"ENOENT">>), FALSE,
                  <<"sftp.NewClient", "Open", "os.Create", "sftp.Close">>, fs)
    ELSE IF ~env.copyOk
    THEN Transfer(Wrap(MsgTransferFailed, <<"sftp error">>), FALSE,
                  <<"sftp.NewClient", "Open", "os.Create", "io.Copy",
                    "sftp.Close">>, fs)
    ELSE Transfer(NilErr, FALSE,
                  <<"sftp.NewClient", "Open", "os.Create", "io.Copy",
                    "sftp.Close">>, fs)

----------------------------------------------------------------------------
\* pkg/ui: the interactive loops

\* the record of a command a loop executed
NoCommand == [loop |-> "none", command |-> "", args |-> <<>>, line |-> <<>>,
              err |-> NilErr, out |-> NoOutput, calls |-> <<>>]

\* the loop condition of StartSFTPSession (part_000:390)
SftpExits(command) == command = "exit" \/ command = "quit"

\* mutant of the loop body: a failing command ends the session with its error
SftpIteration_ReturnsCommandError(fs, rd, netOk) ==
    LET parts == Fields(TrimSpace(rd.data))
        command == parts[1]
        args == Tail(parts)
        r == executeSFTPCommand(fs, command, args, netOk)
    IN  IF rd.err = "EOF"
        THEN [running |-> FALSE, err |-> NilErr, executed |-> FALSE,
              last |-> NoCommand, remote |-> fs]
        ELSE IF rd.err # "nil"
        THEN [running |-> FALSE, err |-> Wrap(MsgReadInputFailed, <<rd.err>>),
              executed |-> FALSE, last |-> NoCommand, remote |-> fs]
        ELSE IF Len(parts) = 0
        THEN [running |-> TRUE, err |-> NilErr, executed |-> FALSE,
              last |-> NoCommand, remote |-> fs]
        ELSE [running |-> ~SftpExits(command) /\ r.err = NilErr,
              err |-> r.err,
              executed |-> TRUE,
              last |-> [loop |-> "sftp", command |-> command, args |-> args,
                        line |-> rd.data, err |-> r.err, out |-> r.out,
                        calls |-> r.calls],
              remote |-> r.remote]

\* one iteration of the loop of StartSFTPSession on read result rd:
\* whether the loop goes on, the error returned if it does not, the command
\* executed if any, and the remote file system afterwards
SftpIteration(fs, rd, netOk) ==
    LET parts == Fields(TrimSpace(rd.data))
        command == parts[1]
        args == Tail(parts)
        r == executeSFTPCommand(fs, command, args, netOk)
    IN  IF rd.err = "EOF"
        THEN [running |-> FALSE, err |-> NilErr, executed |-> FALSE,
              last |-> NoCommand, remote |-> fs]
        ELSE IF rd.err # "nil"
        THEN [running |-> FALSE, err |-> Wrap(MsgReadInputFailed, <<rd.err>>),
              executed |-> FALSE, last |-> NoCommand, remote |-> fs]
        ELSE IF Len(parts) = 0
        THEN [running |-> TRUE, err |-> NilErr, executed |-> FALSE,
              last |-> NoCommand, remote |-> fs]
        ELSE [running |-> ~SftpExits(command), err |-> NilErr,
              executed |-> TRUE,
              last |-> [loop |-> "sftp", command |-> command, args |-> args,
                        line |-> rd.data, err |-> r.err, out |-> r.out,
                        calls |-> r.calls],
              remote |-> r.remote]

\* the exit test of ExecuteInteractiveCommand (part_000:760)
IcmdExits(command) == command = <<"exit">> \/ command = <<"quit">>

\* mutant of the command loop: end of input is skipped like an empty line
IcmdIteration_IgnoresEOF(rd, nsOk, runOk) ==
    LET command == TrimSpace(rd.data)
        r == ExecuteCommandResult(command, nsOk, runOk)
    IN  IF rd.err = "EOF"
        THEN [running |-> TRUE, err |-> NilErr, executed |-> FALSE,
              last |-> NoCommand, opened |-> 0, closed |-> 0]
        ELSE IF rd.err # "nil"
        THEN [running |-> FALSE, err |-> Wrap(MsgReadInputFailed, <<rd.err>>),
              executed |-> FALSE, last |-> NoCommand,
              opened |-> 0, closed |-> 0]
        ELSE IF IcmdExits(command)
        THEN [running |-> FALSE, err |-> NilErr, executed |-> FALSE,
              last |-> NoCommand, opened |-> 0, closed |-> 0]
        ELSE IF command = <<>>
        THEN [running |-> TRUE, err |-> NilErr, executed |-> FALSE,
              last |-> NoCommand, opened |-> 0, closed |-> 0]
        ELSE [running |-> TRUE, err |-> NilErr, executed |-> TRUE,
              last |-> [loop |-> "icmd", command |-> "", args |-> <<>>,
                        line |-> command, err |-> r.err,
                        out |-> Printed(r.out),
                        calls |-> IF r.opened = 1
                                  THEN <<"NewSession", "CombinedOutput">>
                                  ELSE <<"NewSession">>],
              opened |-> r.opened, closed |-> r.closed]

\* one iteration of the loop of ExecuteInteractiveCommand on read result rd
IcmdIteration(rd, nsOk, runOk) ==
    LET command == TrimSpace(rd.data)
        r == ExecuteCommandResult(command, nsOk, runOk)
    IN  IF rd.err = "EOF"
        THEN [running |-> FALSE, err |-> NilErr, executed |-> FALSE,
              last |-> NoCommand, opened |-> 0, closed |-> 0]
        ELSE IF rd.err # "nil"
        THEN [running |-> FALSE, err |-> Wrap(MsgReadInputFailed, <<rd.err>>),
              executed |-> FALSE, last |-> NoCommand,
              opened |-> 0, closed |-> 0]
        ELSE IF IcmdExits(command)
        THEN [running |-> FALSE, err |-> NilErr, executed |-> FALSE,
              last |-> NoCommand, opened |-> 0, closed |-> 0]
        ELSE IF command = <<>>
        THEN [running |-> TRUE, err |-> NilErr, executed |-> FALSE,
              last |-> NoCommand, opened |-> 0, closed |-> 0]
        ELSE [running |-> TRUE, err |-> NilErr, executed |-> TRUE,
              last |-> [loop |-> "icmd", command |-> "", args |-> <<>>,
                        line |-> command, err |-> r.err,
                        out |-> Printed(r.out),
                        calls |-> IF r.opened = 1
                                  THEN <<"NewSession", "CombinedOutput">>
                                  ELSE <<"NewSession">>],
              opened |-> r.opened, closed |-> r.closed]

----------------------------------------------------------------------------
\* The state machine

\* no program of cmd/ is running: the packages are called directly
NoMain == [prog |-> "none", mode |-> "", upload |-> "", download |-> "",
           remote |-> "", ran |-> <<>>, status |-> "running"]

Init ==
    /\ \E c \in SSHConfig : heap = <<c>>
    /\ cfgPtr = 1
    /\ pc = "start"
    /\ client = NoClient
    /\ connState = "none"
    /\ calls = <<>>
    /\ openSessions = 0
    /\ ret = [op |-> "none"]
    /\ remote = RemoteInit
    /\ nread = 0
    /\ input = NoInput
    /\ last = NoCommand
    /\ main = NoMain

\* the caller validates its configuration itself (integration_test.go:40)
CallValidate ==
    /\ pc = "start"
    /\ ret' = [op |-> "Validate", err |-> Validate(heap[cfgPtr])]
    /\ UNCHANGED <<pc, clientVars, sessionVars, main>>

\* a ClientConfig as a caller of addAuthMethods may hand it over: fresh
\* (client.go:37, client.go:288) or with an Auth list already set
StaleMethod == [method |-> "keyboard-interactive", secret |-> ""]

InitialAuths == {<<>>, <<StaleMethod>>}

\* err := addAuthMethods(sshConfig, cfg), called on its own (client.go:293)
CallAddAuthMethods ==
    /\ pc = "start"
    /\ \E a0 \in InitialAuths :
         LET before == [User |-> heap[cfgPtr].Username, Auth |-> a0,
                        Timeout |-> 0]
             r == addAuthMethods(before, heap[cfgPtr])
         IN  ret' = [op |-> "addAuthMethods", err |-> r.err,
                     before |-> before, sshConfig |-> r.sshConfig,
                     calls |-> r.calls]
    /\ UNCHANGED <<pc, clientVars, sessionVars, main>>

\* client, err := sshclient.NewClient(cfg)
CallNewClient ==
    /\ pc = "start"
    /\ \E dial \in DialOutcomes :
         LET r == NewClientResult(cfgPtr, dial)
         IN  /\ client' = r.client
             /\ connState' = r.conn
             /\ heap' = r.heap
             /\ calls' = calls \o r.calls
             /\ ret' = [op |-> "NewClient", client |-> r.client, err |-> r.err]
             /\ pc' = IF r.err = NilErr THEN "connected" ELSE "failed"
    /\ UNCHANGED <<cfgPtr, openSessions, sessionVars, main>>

\* client.GetConnection()
CallGetConnection ==
    /\ pc = "connected"
    /\ ret' = [op |-> "GetConnection", conn |-> GetConnection(client)]
    /\ UNCHANGED <<pc, clientVars, sessionVars, main>>

\* client.GetConfig()
CallGetConfig ==
    /\ pc = "connected"
    /\ ret' = [op |-> "GetConfig", config |-> GetConfig(client)]
    /\ UNCHANGED <<pc, clientVars, sessionVars, main>>

\* output, err := client.ExecuteCommand(command)
CallExecuteCommand ==
    /\ pc = "connected"
    /\ \E command \in Commands, netOk \in BOOLEAN, runOk \in BOOLEAN :
         LET r == ExecuteCommandResult(command,
                                       connState = "open" /\ netOk, runOk)
         IN  /\ openSessions' = openSessions + r.opened - r.closed
             /\ ret' = [op |-> "ExecuteCommand", command |-> command,
                        out |-> r.out, err |-> r.err,
                        opened |-> r.opened, closed |-> r.closed]
    /\ UNCHANGED <<heap, cfgPtr, pc, client, connState, calls, sessionVars,
                   main>>

\* client.Close()
CallClose ==
    /\ pc = "connected"
    /\ LET r == CloseResult(client, connState)
       IN  /\ connState' = r.conn
           /\ ret' = [op |-> "Close", err |-> r.err]
    /\ UNCHANGED <<heap, cfgPtr, pc, client, calls, openSessions, sessionVars,
                   main>>

\* &sshclient.Client{}: a client that was never connected (part_000:115)
EmptyClient == [config |-> 0, conn |-> NilConn]

UploadLocalPaths == {LocalFile, LocalMissingFile, ""}

UploadRemotePaths == {"/tmp/b.txt", ""}

\* err := ui.UploadFile(client, localPath, remotePath), on the connected
\* client or, before any connection, on an empty one
CallUploadFile ==
    /\ pc \in {"start", "connected"}
    /\ \E localPath \in UploadLocalPaths, remotePath \in UploadRemotePaths,
          env \in TransferEnvs :
         LET cl == IF pc = "start" THEN EmptyClient ELSE client
             r == UploadFile(cl, connState, remote, localPath, remotePath, env)
         IN  /\ remote' = r.remote
             /\ ret' = [op |-> "UploadFile", err |-> r.err, panic |-> r.panic,
                        calls |-> r.calls, localPath |-> localPath,
                        usable |-> /\ GetConnection(cl) # NilConn
                                   /\ connState = "open"
                                   /\ env.sftpOk]
    /\ UNCHANGED <<pc, clientVars, nread, input, last, main>>

Next ==
    \/ CallValidate
    \/ CallAddAuthMethods
    \/ CallNewClient
    \/ CallGetConnection
    \/ CallGetConfig
    \/ CallExecuteCommand
    \/ CallClose
    \/ CallUploadFile

Spec == Init /\ [][Next]_vars

----------------------------------------------------------------------------
\* The interactive sessions, run on a client NewClient returned

\* the state after NewClient succeeded on a valid configuration
SessionInit ==
    /\ \E c \in SSHConfig :
         /\ c.Port = 22
         /\ Validate(c) = NilErr
         /\ heap = <<c>>
    /\ cfgPtr = 1
    /\ LET r == NewClientResult(1, "ok")
       IN  /\ r.err = NilErr
           /\ client = r.client
           /\ connState = r.conn
           /\ calls = r.calls
           /\ ret = [op |-> "NewClient", client |-> r.client, err |-> r.err]
    /\ pc = "connected"
    /\ openSessions = 0
    /\ remote = RemoteInit
    /\ nread = 0
    /\ input = NoInput
    /\ last = NoCommand
    /\ main = NoMain

\* ui.StartSFTPSession(client), up to the first prompt: sftp.NewClient on
\* the connection, Getwd with "/" as fallback, the banner
StartSFTPSessionEntry ==
    /\ pc = "connected"
    /\ \E sftpOk \in BOOLEAN, wdOk \in BOOLEAN :
         IF connState = "open" /\ sftpOk
         THEN /\ pc' = "sftp"
              /\ ret' = [op |-> "StartSFTPSession.banner",
                         pwd |-> IF Getwd(wdOk).ok THEN Getwd(wdOk).dir
                                 ELSE "/"]
         ELSE /\ pc' = "returned"
              /\ ret' = [op |-> "StartSFTPSession",
                         err |-> Wrap(MsgSftpClientFailed, <<"ssh error">>)]
    /\ nread' = 0
    /\ input' = NoInput
    /\ last' = NoCommand
    /\ UNCHANGED <<clientVars, remote>>

\* StartSFTPSession called on its own, outside the two programs
EnterSFTPSession ==
    /\ StartSFTPSessionEntry
    /\ UNCHANGED main

\* one iteration of the command loop of StartSFTPSession
SftpLoop ==
    /\ pc = "sftp"
    /\ \E rd \in ReadResults(nread), netOk \in BOOLEAN :
         LET r == SftpIteration(remote, rd, connState = "open" /\ netOk)
         IN  /\ input' = rd
             /\ nread' = IF rd.err = "nil" THEN nread + 1 ELSE nread
             /\ last' = IF r.executed THEN r.last ELSE last
             /\ remote' = r.remote
             /\ pc' = IF r.running THEN "sftp" ELSE "returned"
             /\ ret' = IF r.running THEN ret
                       ELSE [op |-> "StartSFTPSession", err |-> r.err]
    /\ UNCHANGED <<clientVars, main>>

\* ui.ExecuteInteractiveCommand(client), up to the first prompt
EnterInteractiveCommand ==
    /\ pc = "connected"
    /\ pc' = "icmd"
    /\ ret' = [op |-> "ExecuteInteractiveCommand.banner",
               user |-> heap[GetConfig(client)].Username,
               host |-> heap[GetConfig(client)].Host]
    /\ nread' = 0
    /\ input' = NoInput
    /\ last' = NoCommand
    /\ UNCHANGED <<clientVars, remote, main>>

\* one iteration of the loop of ExecuteInteractiveCommand
IcmdLoop ==
    /\ pc = "icmd"
    /\ \E rd \in ReadResults(nread), netOk \in BOOLEAN, runOk \in BOOLEAN :
         LET r == IcmdIteration(rd, connState = "open" /\ netOk, runOk)
         IN  /\ input' = rd
             /\ nread' = IF rd.err = "nil" THEN nread + 1 ELSE nread
             /\ last' = IF r.executed THEN r.last ELSE last
             /\ openSessions' = openSessions + r.opened - r.closed
             /\ pc' = IF r.running THEN "icmd" ELSE "returned"
             /\ ret' = IF r.running THEN ret
                       ELSE [op |-> "ExecuteInteractiveCommand",
                             err |-> r.err]
    /\ UNCHANGED <<heap, cfgPtr, client, connState, calls, remote, main>>

SessionNext ==
    \/ CallClose
    \/ EnterSFTPSession
    \/ SftpLoop
    \/ EnterInteractiveCommand
    \/ IcmdLoop

SessionSpec == SessionInit /\ [][SessionNext]_vars

\* the sessions with their loops scheduled: standard input is finite and
\* every read and every library call returns, so a running loop takes its
\* next iteration
SessionFairSpec ==
    /\ SessionInit
    /\ [][SessionNext]_vars
    /\ WF_vars(SftpLoop)
    /\ WF_vars(IcmdLoop)

----------------------------------------------------------------------------
\* pkg/ui: StartSSHSession

MsgSshSessionFailed == "creating SSH session failed"     \* part_000:687
MsgRequestPtyFailed == "requesting pseudo terminal failed" \* part_000:700
MsgShellFailed      == "starting remote shell failed"    \* part_000:714
MsgWaitFailed       == "SSH session ended abnormally"    \* part_000:720

\* what term.GetSize(fd) may report
TermSizes == {[width |-> 80, height |-> 24], [width |-> 132, height |-> 43]}

\* what the terminal and the library calls of one StartSSHSession do
SSHEnvs == [nsOk : BOOLEAN, isTerminal : BOOLEAN, sizeOk : BOOLEAN,
            size : TermSizes, ptyOk : BOOLEAN, shellOk : BOOLEAN,
            waitOk : BOOLEAN]

\* the result of StartSSHSession: the error, the calls made on the session
\* in order, and the sessions it opened and closed
SSHResult(err, sessionCalls, opened) ==
    [err |-> err, calls |-> sessionCalls, opened |-> opened,
     closed |-> opened]

\* session.RequestPty("xterm", h, w, ssh.TerminalModes{})
RequestPty(h, w) == <<"RequestPty", "xterm", h, w>>

\* mutant: width and height handed to RequestPty in the order GetSize
\* returns them
StartSSHSessionResult_WidthFirst(nsOk, env) ==
    LET wantPty == env.isTerminal /\ env.sizeOk
        pty == IF wantPty
               THEN <<RequestPty(env.size.width, env.size.height)>>
               ELSE <<>>
    IN  IF ~nsOk
        THEN SSHResult(Wrap(MsgSshSessionFailed, <<"ssh error">>),
                       <<<<"NewSession">>>>, 0)
        ELSE IF wantPty /\ ~env.ptyOk
        THEN SSHResult(Wrap(MsgRequestPtyFailed, <<"ssh error">>),
                       <<<<"NewSession">>>> \o pty \o <<<<"Close">>>>, 1)
        ELSE IF ~env.shellOk
        THEN SSHResult(Wrap(MsgShellFailed, <<"ssh error">>),
                       <<<<"NewSession">>>> \o pty
                           \o <<<<"Shell">>, <<"Close">>>>, 1)
        ELSE IF ~env.waitOk
        THEN SSHResult(Wrap(MsgWaitFailed, <<"exit status 1">>),
                       <<<<"NewSession">>>> \o pty
                           \o <<<<"Shell">>, <<"Wait">>, <<"Close">>>>, 1)
        ELSE SSHResult(NilErr,
                       <<<<"NewSession">>>> \o pty
                           \o <<<<"Shell">>, <<"Wait">>, <<"Close">>>>, 1)

\* StartSSHSession(client): conn.NewSession succeeds iff nsOk; the deferred
\* session.Close runs at every return after it
StartSSHSessionResult(nsOk, env) ==
    LET wantPty == env.isTerminal /\ env.sizeOk
        pty == IF wantPty
               THEN <<RequestPty(env.size.height, env.size.width)>>
               ELSE <<>>
    IN  IF ~nsOk
        THEN SSHResult(Wrap(MsgSshSessionFailed, <<"ssh error">>),
                       <<<<"NewSession">>>>, 0)
        ELSE IF wantPty /\ ~env.ptyOk
        THEN SSHResult(Wrap(MsgRequestPtyFailed, <<"ssh error">>),
                       <<<<"NewSession">>>> \o pty \o <<<<"Close">>>>, 1)
        ELSE IF ~env.shellOk
        THEN SSHResult(Wrap(MsgShellFailed, <<"ssh error">>),
                       <<<<"NewSession">>>> \o pty
                           \o <<<<"Shell">>, <<"Close">>>>, 1)
        ELSE IF ~env.waitOk
        THEN SSHResult(Wrap(MsgWaitFailed, <<"exit status 1">>),
                       <<<<"NewSession">>>> \o pty
                           \o <<<<"Shell">>, <<"Wait">>, <<"Close">>>>, 1)
        ELSE SSHResult(NilErr,
                       <<<<"NewSession">>>> \o pty
                           \o <<<<"Shell">>, <<"Wait">>, <<"Close">>>>, 1)

----------------------------------------------------------------------------
\* cmd/ssh-tool and cmd/sftp: the two programs

Programs == {"ssh-tool", "sftp"}

\* values of -mode: the two supported ones and a mistyped one
ModeFlags == {"ssh", "sftp", "ftp"}

UploadFlags == {"", LocalFile}

DownloadFlags == {"", "/home/u/a.txt"}

RemoteFlags == {"", "/tmp/a.txt"}

\* mutant of the mode selection of cmd/sftp: -download looked at first
SftpMode_DownloadFirst(upload, download, remoteFlag) ==
    IF download # "" /\ remoteFlag # "" THEN "download"
    ELSE IF upload # "" /\ remoteFlag # "" THEN "upload"
    ELSE "interactive"

\* the if / else if / else of cmd/sftp
SftpMode(upload, download, remoteFlag) ==
    IF upload # "" /\ remoteFlag # "" THEN "upload"
    ELSE IF download # "" /\ remoteFlag # "" THEN "download"
    ELSE "interactive"

\* the switch on *mode of cmd/ssh-tool
SshToolMode(mode) ==
    IF mode = "ssh" THEN "ssh"
    ELSE IF mode = "sftp" THEN "interactive"
    ELSE "unsupported"

\* the mode the running program selects
SelectedMode ==
    IF main.prog = "sftp"
    THEN SftpMode(main.upload, main.download, main.remote)
    ELSE SshToolMode(main.mode)

\* a program started with its flags parsed; cfg is built from them
MainInit ==
    /\ \E prog \in Programs, host \in Hosts, user \in Usernames,
          pass \in Passwords :
         /\ heap = <<[Host |-> host, Port |-> 22, Username |-> user,
                      Password |-> pass, KeyFile |-> ""]>>
         /\ \/ /\ prog = "ssh-tool"
               /\ \E mode \in ModeFlags :
                    main = [prog |-> prog, mode |-> mode, upload |-> "",
                            download |-> "", remote |-> "", ran |-> <<>>,
                            status |-> "running"]
            \/ /\ prog = "sftp"
               /\ \E upload \in UploadFlags, download \in DownloadFlags,
                     remoteFlag \in RemoteFlags :
                    main = [prog |-> prog, mode |-> "", upload |-> upload,
                            download |-> download, remote |-> remoteFlag,
                            ran |-> <<>>, status |-> "running"]
    /\ cfgPtr = 1
    /\ pc = "start"
    /\ client = NoClient
    /\ connState = "none"
    /\ calls = <<>>
    /\ openSessions = 0
    /\ ret = [op |-> "none"]
    /\ remote = RemoteInit
    /\ nread = 0
    /\ input = NoInput
    /\ last = NoCommand

\* how main ends after running the modes in ranModes: log.Fatalf on an
\* error exits with status 1 at once, without the deferred calls; a return
\* from main runs the deferred client.Close()
MainExit(err, ranModes) ==
    /\ main' = [main EXCEPT !.ran = @ \o ranModes,
                            !.status = IF err = NilErr THEN "exit0"
                                       ELSE "exit1"]
    /\ connState' = IF err = NilErr THEN CloseResult(client, connState).conn
                    ELSE connState
    /\ pc' = "exited"

\* main up to defer client.Close(): the check of -host and -user with
\* os.Exit(1), NewClient with log.Fatalf
MainStart ==
    /\ pc = "start"
    /\ main.prog \in Programs
    /\ IF heap[cfgPtr].Host = "" \/ heap[cfgPtr].Username = ""
       THEN /\ main' = [main EXCEPT !.status = "exit1"]
            /\ pc' = "exited"
            /\ UNCHANGED <<heap, client, connState, calls, ret>>
       ELSE \E dial \in DialOutcomes :
              LET r == NewClientResult(cfgPtr, dial)
              IN  /\ client' = r.client
                  /\ connState' = r.conn
                  /\ heap' = r.heap
                  /\ calls' = calls \o r.calls
                  /\ ret' = [op |-> "NewClient", client |-> r.client,
                             err |-> r.err]
                  /\ pc' = IF r.err = NilErr THEN "connected" ELSE "exited"
                  /\ main' = [main EXCEPT
                                !.status = IF r.err = NilErr THEN "running"
                                           ELSE "exit1"]
    /\ UNCHANGED <<cfgPtr, openSessions, sessionVars>>

\* cmd/sftp, upload mode
MainUpload ==
    /\ pc = "connected"
    /\ main.prog = "sftp"
    /\ SelectedMode = "upload"
    /\ \E env \in TransferEnvs :
         LET r == UploadFile(client, connState, remote, main.upload,
                             main.remote, env)
         IN  /\ remote' = r.remote
             /\ ret' = [op |-> "UploadFile", err |-> r.err,
                        panic |-> r.panic, calls |-> r.calls,
                        localPath |-> main.upload,
                        usable |-> connState = "open" /\ env.sftpOk]
             /\ MainExit(r.err, <<"upload">>)
    /\ UNCHANGED <<heap, cfgPtr, client, calls, openSessions, nread, input,
                   last>>

\* cmd/sftp, download mode
MainDownload ==
    /\ pc = "connected"
    /\ main.prog = "sftp"
    /\ SelectedMode = "download"
    /\ \E env \in TransferEnvs :
         LET r == DownloadFile(client, connState, remote, main.remote,
                               main.download, env)
         IN  /\ remote' = r.remote
             /\ ret' = [op |-> "DownloadFile", err |-> r.err,
                        panic |-> r.panic, calls |-> r.calls]
             /\ MainExit(r.err, <<"download">>)
    /\ UNCHANGED <<heap, cfgPtr, client, calls, openSessions, nread, input,
                   last>>

\* the interactive SFTP mode of either program: StartSFTPSession begins
MainSFTPSession ==
    /\ main.prog \in Programs
    /\ SelectedMode = "interactive"
    /\ StartSFTPSessionEntry
    /\ main' = [main EXCEPT !.ran = Append(@, "interactive")]

\* StartSFTPSession returned to main
MainSessionReturned ==
    /\ pc = "returned"
    /\ main.prog \in Programs
    /\ MainExit(ret.err, <<>>)
    /\ UNCHANGED <<heap, cfgPtr, client, calls, openSessions, ret,
                   sessionVars>>

\* cmd/ssh-tool, -mode=ssh: StartSSHSession from its call to its return
MainSSH ==
    /\ pc = "connected"
    /\ main.prog = "ssh-tool"
    /\ SelectedMode = "ssh"
    /\ \E env \in SSHEnvs :
         LET nsOk == connState = "open" /\ env.nsOk
             r == StartSSHSessionResult(nsOk, env)
         IN  /\ openSessions' = openSessions + r.opened - r.closed
             /\ ret' = [op |-> "StartSSHSession", err |-> r.err,
                        calls |-> r.calls, env |-> env, nsOk |-> nsOk,
                        opened |-> r.opened, closed |-> r.closed]
             /\ MainExit(r.err, <<"ssh">>)
    /\ UNCHANGED <<heap, cfgPtr, client, calls, sessionVars>>

\* cmd/ssh-tool, any other -mode: the message and os.Exit(1)
MainUnsupported ==
    /\ pc = "connected"
    /\ main.prog = "ssh-tool"
    /\ SelectedMode = "unsupported"
    /\ main' = [main EXCEPT !.status = "exit1"]
    /\ pc' = "exited"
    /\ UNCHANGED <<clientVars, ret, sessionVars>>

MainNext ==
    \/ MainStart
    \/ MainUpload
    \/ MainDownload
    \/ MainSFTPSession
    \/ SftpLoop
    \/ MainSessionReturned
    \/ MainSSH
    \/ MainUnsupported

MainSpec == MainInit /\ [][MainNext]_vars

----------------------------------------------------------------------------
\* Properties

cfg0 == heap[cfgPtr]

\* the configuration's defects, in the order Validate is documented to look
\* for them; the fifth is a key file that does not exist
Defects(c) ==
    <<c.Host = "",
      c.Username = "",
      c.Port \notin 1..65535,
      c.Password = "" /\ c.KeyFile = "",
      c.KeyFile # "" /\ ~FileExists(c.KeyFile)>>

DefectMessages ==
    <<MsgHostEmpty, MsgUserEmpty, MsgPortRange, MsgNoCredentials,
      MsgKeyFileMissing>>

Defective(c) == \E i \in 1..5 : Defects(c)[i]

FirstDefect(c) == CHOOSE i \in 1..5 :
                    /\ Defects(c)[i]
                    /\ \A j \in 1..(i - 1) : ~Defects(c)[j]

\* C1: Validate returns an error exactly when the host is empty, the
\* username is empty, the port is outside 1..65535, neither password nor key
\* file is given, or the key file named does not exist; otherwise nil.
C1_ValidateRejectsExactlyDefects ==
    ret.op = "Validate" => ((ret.err # NilErr) <=> Defective(cfg0))

\* C2: Validate returns the message of the first failing check in the order
\* host, username, port, credentials, key-file existence, and nil when no
\* check fails.
C2_FirstDefectMessage ==
    ret.op = "Validate" =>
        IF Defective(cfg0)
        THEN ret.err = <<DefectMessages[FirstDefect(cfg0)]>>
        ELSE ret.err = NilErr

NoneOfCalls(cs, names) == \A i \in 1..Len(cs) : cs[i].call \notin names

\* C3: NewClient on a configuration Validate rejects returns a nil client
\* and an error containing the validation-failed message, and has neither
\* read a key file nor dialled.
C3_RejectedConfigFailsEarly ==
    (ret.op = "NewClient" /\ Validate(cfg0) # NilErr) =>
        /\ ret.client = NoClient
        /\ Contains(ret.err, MsgValidateFailed)
        /\ NoneOfCalls(calls, {"ReadFile", "ParsePrivateKey", "Dial"})

C3_Witness ==
    /\ ret.op = "NewClient"
    /\ Validate(cfg0) # NilErr
    /\ cfg0.KeyFile = PathMissing
    /\ cfg0.Host # ""

DialFailed(cs) == \E i \in 1..Len(cs) : cs[i].call = "Dial" /\ cs[i].res # "ok"

\* C4: NewClient whose dial fails returns a nil client and an error
\* containing the connection-failed message; every return of NewClient has
\* exactly one of client and error non-nil.
C4_DialFailureAndExclusiveResult ==
    ret.op = "NewClient" =>
        /\ DialFailed(calls) =>
             ret.client = NoClient /\ Contains(ret.err, MsgDialFailed)
        /\ (ret.client # NoClient) <=> (ret.err = NilErr)

C4_Witness ==
    /\ ret.op = "NewClient"
    /\ Validate(cfg0) = NilErr
    /\ DialFailed(calls)

\* C5: a client NewClient returned has a non-nil connection and the very
\* configuration object passed in; no operation of the client changes that
\* object.
C5_State ==
    /\ (ret.op = "NewClient" /\ ret.err = NilErr) =>
          /\ GetConnection(ret.client) # NilConn
          /\ GetConfig(ret.client) = cfgPtr
    /\ pc = "connected" =>
          /\ GetConnection(client) # NilConn
          /\ GetConfig(client) = cfgPtr
    /\ ret.op = "GetConfig" => ret.config = cfgPtr
    /\ ret.op = "GetConnection" => ret.conn # NilConn

C5_ClientKeepsConfig ==
    /\ []C5_State
    /\ [][heap' = heap /\ cfgPtr' = cfgPtr]_vars

C5_Witness ==
    /\ ret.op = "GetConfig"
    /\ connState = "closed"

AuthNames(auth) == [i \in 1..Len(auth) |-> auth[i].method]

\* the list the claim describes, for configuration c
AuthAsConfigured(auth, c) ==
    /\ (\E i \in 1..Len(auth) : auth[i] = PasswordMethod(c.Password))
          <=> c.Password # ""
    /\ (\E i \in 1..Len(auth) : auth[i].method = "publickey")
          <=> c.KeyFile # ""
    /\ Len(auth) = (IF c.Password # "" THEN 1 ELSE 0)
                   + (IF c.KeyFile # "" THEN 1 ELSE 0)
    /\ (c.Password # "" /\ c.KeyFile # "") => auth[1].method = "password"
    /\ Validate(c) = NilErr => Len(auth) > 0

\* C6: when addAuthMethods succeeds, the Auth list holds a password method
\* iff a password is configured and a public-key method iff a key file is,
\* password first; it is non-empty for a configuration that passed Validate.
\* The list handed to Dial is that list.
C6_AuthListMatchesConfig ==
    /\ (ret.op = "addAuthMethods" /\ ret.err = NilErr) =>
          AuthAsConfigured(ret.sshConfig.Auth, cfg0)
    /\ \A i \in 1..Len(calls) :
          calls[i].call = "Dial" => AuthAsConfigured(calls[i].auth, cfg0)

C6_Witness ==
    /\ ret.op = "addAuthMethods"
    /\ ret.err = NilErr
    /\ cfg0.Password # ""
    /\ cfg0.KeyFile = PathValidKey
    /\ ret.before.Auth # <<>>

KeyUnreadable(c) == c.KeyFile # "" /\ ReadFile(c.KeyFile).errno # "OK"

KeyUnparseable(c) ==
    /\ c.KeyFile # ""
    /\ ReadFile(c.KeyFile).errno = "OK"
    /\ ~ParsePrivateKeyOk(ReadFile(c.KeyFile).data)

\* C7: addAuthMethods fails with the read-failed message when the key file
\* cannot be read and with the parse-failed message when it is not a key,
\* leaving the ClientConfig as it was; NewClient then fails with the
\* auth-failed message without dialling.
C7_KeyFailureLeavesAuthUntouched ==
    /\ ret.op = "addAuthMethods" =>
          /\ KeyUnreadable(cfg0) => Contains(ret.err, MsgReadKeyFailed)
          /\ KeyUnparseable(cfg0) => Contains(ret.err, MsgParseKeyFailed)
          /\ (KeyUnreadable(cfg0) \/ KeyUnparseable(cfg0)) =>
                ret.sshConfig = ret.before
    /\ (/\ ret.op = "NewClient"
        /\ Validate(cfg0) = NilErr
        /\ KeyUnreadable(cfg0) \/ KeyUnparseable(cfg0)) =>
          /\ ret.client = NoClient
          /\ Contains(ret.err, MsgAuthFailed)
          /\ NoneOfCalls(calls, {"Dial"})

C7_Witness ==
    /\ ret.op = "addAuthMethods"
    /\ KeyUnparseable(cfg0)
    /\ cfg0.Password # ""
    /\ ret.before.Auth # <<>>

\* the first word of a line that has one
FirstWord(l) == l[Min({i \in 1..Len(l) : l[i] # SP})]

HasWord(l) == \E i \in 1..Len(l) : l[i] # SP

DocumentedCommands ==
    {"ls", "cd", "get", "put", "mkdir", "rm", "pwd", "help", "exit"}

\* C8 as stated: the SFTP session recognises exactly ls, cd, get, put,
\* mkdir, rm, pwd, help and exit; any other first word gets the
\* unknown-command error.
C8_ExactlyNineCommands ==
    last.loop = "sftp" =>
        (Contains(last.err, MsgUnknownCommand)
            <=> FirstWord(last.line) \notin DocumentedCommands)

\* C8 as amended: the SFTP session recognises exactly ls, dir, cd, get, put,
\* mkdir, rm, pwd, help, exit and quit; any other first word gets the
\* unknown-command error.
C8_RecognisedCommands ==
    last.loop = "sftp" =>
        (Contains(last.err, MsgUnknownCommand)
            <=> FirstWord(last.line) \notin
                    DocumentedCommands \cup {"dir", "quit"})

C8_Witness ==
    /\ last.loop = "sftp"
    /\ FirstWord(last.line) = "quit"
    /\ last.err = NilErr
    /\ pc = "returned"

InLoop(p) == p \in {"sftp", "icmd"}

\* the exit command of each loop: the first word of the line in the SFTP
\* session, the whole trimmed line in the command loop
ExitWords == {"exit", "quit"}

ExitCommandRead(p, rd) ==
    /\ rd.err = "nil"
    /\ HasWord(rd.data)
    /\ FirstWord(rd.data) \in ExitWords
    /\ p = "icmd" => Cardinality({i \in 1..Len(rd.data) : rd.data[i] # SP}) = 1

\* the loop is left only on the exit command or end of input, returning nil
LeavesOnlyOnExitOrEOF ==
    (InLoop(pc) /\ ~InLoop(pc')) =>
        /\ ExitCommandRead(pc, input') \/ input'.err = "EOF"
        /\ ret'.err = NilErr

\* after a line that is not the exit command the loop is still running
OtherLinesKeepRunning ==
    (InLoop(pc) /\ nread' = nread + 1 /\ ~ExitCommandRead(pc, input')) =>
        pc' = pc

\* C9 as stated: both loops are left only when the exit command was read or
\* input ended, returning nil in both cases; after any other line the loop
\* is still running.
C9_LeftOnlyOnExitOrEOF ==
    [][LeavesOnlyOnExitOrEOF /\ OtherLinesKeepRunning]_vars

\* C9 as amended: both loops are left only when the exit command was read or
\* input ended, returning nil, or when reading standard input failed with
\* an error other than end of input, returning that error wrapped; after
\* any other line the loop is still running.
C9_LeftOnExitEOFOrReadError ==
    [][/\ (InLoop(pc) /\ ~InLoop(pc')) =>
            \/ /\ ExitCommandRead(pc, input') \/ input'.err = "EOF"
               /\ ret'.err = NilErr
            \/ /\ input'.err \notin {"nil", "EOF"}
               /\ Contains(ret'.err, MsgReadInputFailed)
       /\ OtherLinesKeepRunning]_vars

C9_WitnessReadError ==
    /\ pc = "returned"
    /\ input.err = "EIO"
    /\ ret.op = "ExecuteInteractiveCommand"

\* C10: after a successful cd <dir> in the SFTP session, a following pwd
\* reports <dir> and a following ls without argument lists <dir>.
C10_CdSwitchesDirectory ==
    [][(/\ pc = "sftp"
        /\ last.loop = "sftp" /\ last.command = "cd" /\ last.err = NilErr
        /\ nread' = nread + 1
        /\ HasWord(input'.data)
        /\ last'.err = NilErr) =>
          /\ last'.command = "pwd" => last'.out.text = <<last.args[1]>>
          /\ (last'.command = "ls" /\ last'.args = <<>>) =>
                last'.out.listing = Children(remote, last.args[1])]_vars

\* the errors with which a transfer that the library cannot carry out fails
TransferFailures ==
    {MsgSftpClientFailed, MsgOpenLocalFailed, MsgCreateRemoteFailed,
     MsgTransferFailed, MsgOpenRemoteFailed, MsgCreateLocalFailed}

\* C11: in the SFTP session get <remote> [local] downloads and
\* put <local> [remote] uploads the file; the command reports no error
\* unless the underlying transfer itself fails.
C11_GetPutTransfer ==
    (/\ last.loop = "sftp"
     /\ last.command \in {"get", "put"}
     /\ Len(last.args) > 0) =>
        \/ last.err = NilErr
        \/ \E m \in TransferFailures : Contains(last.err, m)

NoCallTwice(cs) == \A i, j \in 1..Len(cs) : cs[i] = cs[j] => i = j

\* what ls shows is the directory as it is when the command runs
ListingIsCurrent ==
    (/\ last.loop = "sftp"
     /\ last.command \in {"ls", "dir"}
     /\ last.err = NilErr) =>
        last.out.listing =
            Children(remote, Resolve(IF Len(last.args) > 0
                                     THEN last.args[1] ELSE "."))

\* C12 as stated: an input line of an interactive loop causes at most one
\* call into the SSH/SFTP library, no failed call is retried and no earlier
\* result is reused.
C12_OneLibraryCallPerLine ==
    /\ Len(last.calls) <= 1
    /\ NoCallTwice(last.calls)
    /\ ListingIsCurrent

\* C12 as amended: a line of the SFTP session causes at most one SFTP
\* request; a line of the command loop causes one ExecuteCommand, which
\* opens one session and, when that succeeded, runs the command once on it;
\* no failed call is retried and no earlier result is reused.
C12_OneOperationPerLine ==
    /\ last.loop = "sftp" => Len(last.calls) <= 1
    /\ last.loop = "icmd" =>
          /\ last.calls \in {<<"NewSession">>,
                             <<"NewSession", "CombinedOutput">>}
          /\ Len(last.calls) = 1 <=> Contains(last.err, MsgNewSessionFailed)
    /\ NoCallTwice(last.calls)
    /\ ListingIsCurrent

C12_Witness ==
    /\ last.loop = "sftp"
    /\ last.command = "ls"
    /\ last.args = <<"/tmp">>
    /\ last.err = NilErr
    /\ "/tmp/a.txt" \notin remote.files

\* a failing command leaves the SFTP loop running
FailingCommandKeepsSession ==
    (/\ pc = "sftp"
     /\ nread' = nread + 1
     /\ HasWord(input'.data)
     /\ last'.err # NilErr) =>
        pc' = "sftp" /\ ret' = ret

ReadFailed(rd) == rd.err \notin {"none", "nil", "EOF"}

\* C17 as stated: in StartSFTPSession a command's error never ends the
\* session, and the function returns a non-nil error only when reading
\* standard input failed with something other than end of input.
C17_OnlyReadErrorReturned ==
    /\ [][FailingCommandKeepsSession]_vars
    /\ []((ret.op = "StartSFTPSession" /\ ret.err # NilErr) =>
             ReadFailed(input))

\* C17 as amended: in StartSFTPSession a command's error never ends the
\* session, and the function returns a non-nil error only when creating the
\* SFTP client failed, before any line was read, or when reading standard
\* input failed with something other than end of input.
C17_OnlySetupOrReadErrorReturned ==
    /\ [][FailingCommandKeepsSession]_vars
    /\ []((ret.op = "StartSFTPSession" /\ ret.err # NilErr) =>
             \/ /\ ReadFailed(input)
                /\ Contains(ret.err, MsgReadInputFailed)
             \/ /\ input = NoInput /\ nread = 0
                /\ Contains(ret.err, MsgSftpClientFailed))

C17_Witness ==
    /\ pc = "sftp"
    /\ nread = 2
    /\ last.loop = "sftp"
    /\ Contains(last.err, MsgUnknownCommand)
    /\ input.err = "nil"
    /\ last.line = input.data

\* C18: ExecuteCommand opens one session per call, unless the session
\* cannot be created, and closes it on every return path, so no session it
\* opened stays open; a failing call returns the empty output, a successful
\* one the command's combined stdout and stderr.
C18_ExecuteCommandClosesSession ==
    /\ openSessions = 0
    /\ ret.op = "ExecuteCommand" =>
          /\ ret.opened = ret.closed
          /\ ret.opened = (IF Contains(ret.err, MsgNewSessionFailed)
                           THEN 0 ELSE 1)
          /\ ret.err # NilErr => ret.out = <<>>
          /\ ret.err = NilErr => ret.out = <<"stdout+stderr", ret.command>>

C18_Witness ==
    /\ ret.op = "ExecuteCommand"
    /\ Contains(ret.err, MsgRunFailed)
    /\ ret.opened = 1

\* C19: on finite input both loops terminate; nothing is read after the
\* exit command, and input that ends without one ends the loop at end of
\* input with a nil result.
C19_LoopsTerminate ==
    /\ InLoop(pc) ~> pc = "returned"
    /\ [](InLoop(pc) => ~ExitCommandRead(pc, input))
    /\ [][pc = "returned" => (nread' = nread /\ input' = input)]_vars
    /\ []((pc = "returned" /\ input.err = "EOF") => ret.err = NilErr)

C19_Witness ==
    /\ pc = "returned"
    /\ ret.op = "ExecuteInteractiveCommand"
    /\ input.err = "EOF"
    /\ nread = 2
    /\ last.loop = "icmd"

\* C15: UploadFile with a local path that cannot be opened fails with the
\* open-local-file error even without a usable connection; with an openable
\* local file and no usable connection it fails with the SFTP-client error.
C15_LocalFileFailureFirst ==
    ret.op = "UploadFile" =>
        /\ ~OsOpenOk(ret.localPath) =>
              ~ret.panic /\ Contains(ret.err, MsgOpenLocalFailed)
        /\ (OsOpenOk(ret.localPath) /\ ~ret.usable) =>
              ~ret.panic /\ Contains(ret.err, MsgSftpClientFailed)

\* the modes of cmd/sftp
SftpModes == {"upload", "download", "interactive"}

\* the mode the flags of cmd/sftp ask for
FlagsAskFor(mode) ==
    IF main.upload # "" /\ main.remote # "" THEN mode = "upload"
    ELSE IF main.download # "" /\ main.remote # "" THEN mode = "download"
    ELSE mode = "interactive"

\* the operation that actually ran last, as a mode
RanOperation ==
    IF ret.op = "UploadFile" THEN "upload"
    ELSE IF ret.op = "DownloadFile" THEN "download"
    ELSE IF ret.op \in {"StartSFTPSession", "StartSFTPSession.banner"}
    THEN "interactive"
    ELSE "none"

\* C13: cmd/sftp runs upload when -upload and -remote are both non-empty
\* (also with -download given), otherwise download when -download and
\* -remote are non-empty, otherwise the interactive session; exactly one
\* mode runs per invocation that got its connection.
C13_SftpModeSelection ==
    main.prog = "sftp" =>
        /\ Len(main.ran) <= 1
        /\ \A i \in 1..Len(main.ran) :
             /\ main.ran[i] \in SftpModes
             /\ FlagsAskFor(main.ran[i])
             /\ RanOperation = main.ran[i]
        /\ (main.status # "running" /\ client # NoClient) =>
              Len(main.ran) = 1

C13_Witness ==
    /\ main.prog = "sftp"
    /\ main.upload # "" /\ main.download # "" /\ main.remote # ""
    /\ main.ran = <<"upload">>
    /\ ret.op = "UploadFile"
    /\ main.status = "exit0"

\* C14: whenever ssh-tool or sftp has terminated after NewClient succeeded,
\* the SSH connection has been closed by Client.Close.
C14_ConnectionClosedAtExit ==
    (main.prog \in Programs /\ main.status # "running" /\ client # NoClient)
        => connState = "closed"

\* the names of the calls StartSSHSession made on the session, in order
StepNames == [i \in DOMAIN ret.calls |-> ret.calls[i][1]]

StepRank(name) ==
    CASE name = "NewSession" -> 1
      [] name = "RequestPty" -> 2
      [] name = "Shell" -> 3
      [] name = "Wait" -> 4
      [] name = "Close" -> 5

Made(name) == \E i \in DOMAIN StepNames : StepNames[i] = name

\* C16: StartSSHSession requests a pseudo-terminal exactly when stdin is a
\* terminal whose size can be read, with the height as rows and the width
\* as columns; the steps are NewSession, optional RequestPty, Shell, Wait in
\* this order; a failing step returns an error and no later step is made;
\* the session is closed on every return path.
C16_StartSSHSessionSteps ==
    ret.op = "StartSSHSession" =>
        LET env == ret.env
            wantPty == env.isTerminal /\ env.sizeOk
        IN  /\ StepNames[1] = "NewSession"
            /\ \A i, j \in DOMAIN StepNames :
                 i < j => StepRank(StepNames[i]) < StepRank(StepNames[j])
            /\ Made("RequestPty") <=> (ret.nsOk /\ wantPty)
            /\ \A i \in DOMAIN ret.calls :
                 StepNames[i] = "RequestPty" =>
                    ret.calls[i] = <<"RequestPty", "xterm", env.size.height,
                                     env.size.width>>
            /\ Made("Shell") <=> (ret.nsOk /\ (wantPty => env.ptyOk))
            /\ Made("Wait") <=> (Made("Shell") /\ env.shellOk)
            /\ (ret.err = NilErr) <=> (Made("Wait") /\ env.waitOk)
            /\ ~ret.nsOk => Contains(ret.err, MsgSshSessionFailed)
            /\ (ret.nsOk /\ ~Made("Shell")) =>
                  Contains(ret.err, MsgRequestPtyFailed)
            /\ (Made("Shell") /\ ~Made("Wait")) =>
                  Contains(ret.err, MsgShellFailed)
            /\ (Made("Wait") /\ ~env.waitOk) =>
                  Contains(ret.err, MsgWaitFailed)
            /\ ret.nsOk <=> Made("Close")
            /\ ret.opened = ret.closed
            /\ openSessions = 0

C16_Witness ==
    /\ ret.op = "StartSSHSession"
    /\ ret.err = NilErr
    /\ Made("RequestPty")
    /\ ret.env.size.height # ret.env.size.width
    /\ StepNames = <<"NewSession", "RequestPty", "Shell", "Wait", "Close">>

====
